---- MODULE Spec2Model ----
(***************************************************************************)
(* passepartout: the password-store backend.                               *)
(*                                                                         *)
(*  - src/src/password_store.rs: PasswordStore::run_once, the dispatcher   *)
(*    that runs one `pass` invocation per request on a fresh thread and    *)
(*    keeps a table of the last thread handle per table key.               *)
(*  - src/src/clipboard.rs, src/src/pass/operations.rs: the clipboard      *)
(*    with its expiry threads, and the copy operations on top of it.       *)
(***************************************************************************)
EXTENDS Integers, Naturals, Sequences, FiniteSets, TLC

(***************************************************************************)
(* Bounds of the model.                                                    *)
(***************************************************************************)
\* Threads spawned by run_once in one run of the model.
MaxTasks == 3

\* Credential ids the caller passes.
PassIds == {"a", "b"}

\* The operations dispatched through run_once (password_store.rs:223-246).
\* All five wrappers make the same call and differ only in the function they
\* pass; requests are drawn from two of them, one answering with a Status
\* event and one with a payload event.
Kinds == {"copy_password", "fetch_entry"}

\* Values the table key of run_once can take.  The key is the address of the
\* by-value parameter `password_function` (password_store.rs:201), a local of
\* the run_once frame: its value depends on the stack depth of the call and on
\* how the build lays out the frame, not on which function was passed.  The
\* language promises neither that two calls for one function see the same
\* address nor that calls for two functions see different ones.
Addrs == {"sp0", "sp1"}

VARIABLES
    tasks,          \* the threads spawned so far: [kind, id, pc]
    ops_map,        \* PasswordStore.ops_map: key -> (handle, last pass_id)
    events,         \* what was sent on event_tx, in order
    receiver_alive, \* whether the Receiver of event_tx still exists
    last_call       \* the latest run_once call and whether it spawned a thread

VARIABLES
    clipboard,      \* clipboard.rs CLIPBOARD: whether the Option holds an instance
    contents,       \* what the system clipboard holds
    lock,           \* the expiry thread holding the CLIPBOARD mutex, or 0
    timers,         \* the expiry threads spawned by schedule_clipboard_clear
    last_op,        \* the latest copy operation and what it returned
    only_copy_id    \* no operation other than copy_id was called so far

VARIABLES
    tree,           \* the password store directory on disk
    passwords,      \* pass::PasswordStore.passwords, the index
    found_paths     \* what the dispatcher's PasswordStore::read_store_dir found

VARIABLES
    decrypted,      \* the decrypted text of a password file
    extracted       \* what the latest extraction made of it

storeVars == <<tasks, ops_map, events, receiver_alive, last_call>>
clipVars == <<clipboard, contents, lock, timers, last_op, only_copy_id>>
indexVars == <<tree, passwords, found_paths>>
extractVars == <<decrypted, extracted>>
vars == <<tasks, ops_map, events, receiver_alive, last_call,
          clipboard, contents, lock, timers, last_op, only_copy_id,
          tree, passwords, found_paths, decrypted, extracted>>

\* What a step of the dispatcher, of the clipboard, of the index and of the
\* extraction leaves alone.
besideStore == <<clipVars, indexVars, extractVars>>
besideClip == <<storeVars, indexVars, extractVars>>
besideIndex == <<storeVars, clipVars, extractVars>>
besideExtract == <<storeVars, clipVars, indexVars>>

NoEntry == [handle |-> 0, last_pass_id |-> ""]

\* JoinHandle::is_finished: the thread's closure has returned or unwound.
is_finished(handle) == tasks[handle].pc \in {"finished", "panicked"}

\* A thread that was spawned and has not finished.
Live(t) == t \in 1..Len(tasks) /\ ~is_finished(t)

\* The event a successful operation of each kind returns.
OkEvent(kind) ==
    CASE kind = "fetch_otp"   -> "OneTimePassword"
      [] kind = "fetch_entry" -> "PasswordInfo"
      [] OTHER                -> "Status_Ok"

\* Outcomes of the `pass` child process of an operation: it exits with
\* success, exits with failure, or cannot be started at all.
Outcomes == {"success", "failure", "no_launch"}

InitStore ==
    /\ tasks = <<>>
    /\ ops_map = [p \in Addrs |-> NoEntry]
    /\ events = <<>>
    /\ receiver_alive = TRUE
    /\ last_call = [kind |-> "", id |-> "", key |-> "", spawned |-> FALSE]

\* PasswordStore::run_once, for the function `kind` passed at address fn_ptr.
run_once(kind, pass_id, fn_ptr) ==
    IF /\ ops_map[fn_ptr] # NoEntry
       /\ pass_id = ops_map[fn_ptr].last_pass_id
       /\ ~is_finished(ops_map[fn_ptr].handle)
    THEN /\ last_call' = [kind |-> kind, id |-> pass_id, key |-> fn_ptr, spawned |-> FALSE]
         /\ UNCHANGED <<tasks, ops_map, events, receiver_alive>>
         /\ UNCHANGED besideStore
    ELSE /\ Len(tasks) < MaxTasks
         /\ tasks' = Append(tasks, [kind |-> kind, id |-> pass_id,
                                    pc |-> "running", result |-> "none"])
         /\ ops_map' = [ops_map EXCEPT ![fn_ptr] =
                            [handle |-> Len(tasks) + 1, last_pass_id |-> pass_id]]
         /\ last_call' = [kind |-> kind, id |-> pass_id, key |-> fn_ptr, spawned |-> TRUE]
         /\ UNCHANGED <<events, receiver_alive>>
         /\ UNCHANGED besideStore

\* PasswordStore::copy_password .. fetch_entry: the public entry points.
Request == \E kind \in Kinds, id \in PassIds, p \in Addrs : run_once(kind, id, p)

\* The closure of the spawned thread: run the operation, turn its result into
\* an event, send it.  Command::status()/output() is unwrapped with expect, so
\* a child that cannot be started panics the thread before any event exists;
\* so does a send on a channel whose receiver is gone.
ThreadBody(t, outcome) ==
    /\ t \in 1..Len(tasks)
    /\ tasks[t].pc = "running"
    /\ IF outcome = "no_launch" \/ ~receiver_alive
       THEN /\ tasks' = [tasks EXCEPT ![t].pc = "panicked", ![t].result = outcome]
            /\ UNCHANGED events
       ELSE /\ tasks' = [tasks EXCEPT ![t].pc = "sent", ![t].result = outcome]
            /\ events' = Append(events,
                   [task |-> t,
                    shape |-> IF outcome = "success" THEN OkEvent(tasks[t].kind)
                              ELSE "Status_Err"])
    /\ UNCHANGED <<ops_map, receiver_alive, last_call>>
    /\ UNCHANGED besideStore

ThreadRun == \E t \in 1..MaxTasks, o \in Outcomes : ThreadBody(t, o)

\* The closure has returned: from now on is_finished() answers true.
ThreadExit ==
    \E t \in 1..Len(tasks) :
        /\ tasks[t].pc = "sent"
        /\ tasks' = [tasks EXCEPT ![t].pc = "finished"]
        /\ UNCHANGED <<ops_map, events, receiver_alive, last_call>>
        /\ UNCHANGED besideStore

\* The host drops the receiving end of the channel.
DropReceiver ==
    /\ receiver_alive
    /\ receiver_alive' = FALSE
    /\ UNCHANGED <<tasks, ops_map, events, last_call>>
    /\ UNCHANGED besideStore

(***************************************************************************)
(* The clipboard (src/src/clipboard.rs) and the copy operations            *)
(* (src/src/pass/operations.rs).  Text is a sequence of characters.        *)
(*                                                                         *)
(* The system clipboard is written through this process's Clipboard        *)
(* instance only.  What another application writes while no expiry thread  *)
(* is between its read and its clear has the effect of a copy_id of that   *)
(* text; a write inside that window is outside the CLIPBOARD lock's reach  *)
(* and is not modelled.  Time is abstract: an expiry thread's sleep ends   *)
(* at some point after it was spawned.                                     *)
(***************************************************************************)
\* Expiry threads spawned in one run of the model.
MaxTimers == 2

\* clipboard.rs:7
EXPIRATION_INTERVAL == 45

LF == "\n"
CR == "\r"

\* The literal of generate_otp's starts_with.
OtpPrefix == <<"o", "t", "p", "a", "u", "t", "h", ":", "/", "/">>

\* The code TOTP::generate_current returns.
OtpCode == <<"7">>

\* Decrypted contents of the password files the caller names.
FileTexts ==
    { <<>>,
      <<"p">>,
      <<"p", LF, "q", LF>> \o OtpPrefix \o <<"k", LF>>,
      <<"q", CR, LF, "p">> }

\* Identifiers the caller passes to copy_id; one reads like a secret.
ClipIds == { <<"a">>, <<"p">> }

\* str::split_inclusive('\n'): the pieces of s, each ending with its "\n".
RECURSIVE SplitInclusive(_)
SplitInclusive(s) ==
    IF s = <<>> THEN <<>>
    ELSE LET ends == {n \in 1..Len(s) : s[n] = LF}
         IN  IF ends = {} THEN <<s>>
             ELSE LET n == CHOOSE m \in ends : \A k \in ends : m <= k
                  IN  <<SubSeq(s, 1, n)>> \o SplitInclusive(SubSeq(s, n + 1, Len(s)))

\* What str::lines makes of one piece: a final "\n" is removed, and then a
\* final "\r"; a piece without "\n" is kept as it is.
StripLineEnd(piece) ==
    IF piece # <<>> /\ piece[Len(piece)] = LF
    THEN LET body == SubSeq(piece, 1, Len(piece) - 1)
         IN  IF body # <<>> /\ body[Len(body)] = CR
             THEN SubSeq(body, 1, Len(body) - 1)
             ELSE body
    ELSE piece

\* str::lines, collected.
Lines(s) ==
    LET pieces == SplitInclusive(s)
    IN  [n \in 1..Len(pieces) |-> StripLineEnd(pieces[n])]

\* str::starts_with
StartsWith(line, prefix) ==
    Len(line) >= Len(prefix) /\ SubSeq(line, 1, Len(prefix)) = prefix

Found(text) == [found |-> TRUE, text |-> text]
Missing == [found |-> FALSE, text |-> <<>>]

\* The last line in place of the first.
PasswordOfLastLine(file_contents) ==
    LET ls == Lines(file_contents)
    IN  IF Len(ls) >= 1 THEN Found(ls[Len(ls)]) ELSE Missing

\* copy_password: file_contents.lines().next()
PasswordOf(file_contents) ==
    LET ls == Lines(file_contents)
    IN  IF Len(ls) >= 1 THEN Found(ls[1]) ELSE Missing

\* The last line in place of the second.
LoginOfLastLine(file_contents) ==
    LET ls == Lines(file_contents)
    IN  IF Len(ls) >= 2 THEN Found(ls[Len(ls)]) ELSE Missing

\* copy_login: file_contents.lines().nth(1)
LoginOf(file_contents) ==
    LET ls == Lines(file_contents)
    IN  IF Len(ls) >= 2 THEN Found(ls[2]) ELSE Missing

\* The first line that holds the prefix anywhere.
OtpUrlOfContaining(file_contents) ==
    LET ls == Lines(file_contents)
        hits == {n \in 1..Len(ls) :
                   \E k \in 1..Len(ls[n]) :
                       StartsWith(SubSeq(ls[n], k, Len(ls[n])), OtpPrefix)}
    IN  IF hits = {} THEN Missing
        ELSE Found(ls[CHOOSE n \in hits : \A k \in hits : n <= k])

\* generate_otp: file_contents.lines().find(|line| line.starts_with("otpauth://"))
OtpUrlOf(file_contents) ==
    LET ls == Lines(file_contents)
        hits == {n \in 1..Len(ls) : StartsWith(ls[n], OtpPrefix)}
    IN  IF hits = {} THEN Missing
        ELSE Found(ls[CHOOSE n \in hits : \A k \in hits : n <= k])

NoContent == [set |-> FALSE, text |-> <<>>]
Holding(text) == [set |-> TRUE, text |-> text]

NoOp == [op |-> "", ok |-> FALSE, text |-> <<>>, timer |-> 0]

InitClip ==
    /\ clipboard = FALSE
    /\ contents = NoContent
    /\ lock = 0
    /\ timers = <<>>
    /\ last_op = NoOp
    /\ only_copy_id = TRUE

\* The operation returns an error; nothing of the clipboard changes beyond
\* what the caller of Failed states.
\* The lock taken whoever holds it.
lock_ignored == TRUE

\* CLIPBOARD.lock(): the mutex is free to take.
lock_free == lock = 0

Failed(op) == last_op' = [op |-> op, ok |-> FALSE, text |-> <<>>, timer |-> 0]

\* A schedule that takes the pending expiries of other texts away.
schedule_and_cancel(op, text, expiry_seconds) ==
    timers' = Append([t \in 1..Len(timers) |->
                         IF timers[t].pc = "sleeping" /\ timers[t].text # text
                         THEN [timers[t] EXCEPT !.pc = "done"]
                         ELSE timers[t]],
                     [text |-> text, secs |-> expiry_seconds, origin |-> op,
                      pc |-> "sleeping", held |-> FALSE, read |-> "none",
                      clear |-> "none"])

\* schedule_clipboard_clear: a thread that sleeps expiry_seconds and then
\* checks the clipboard.
schedule_clipboard_clear(op, text, expiry_seconds) ==
    timers' = Append(timers, [text |-> text, secs |-> expiry_seconds, origin |-> op,
                              pc |-> "sleeping", held |-> FALSE, read |-> "none",
                              clear |-> "none"])

\* copy_to_clipboard with the expiry spawned ahead of set_text.
copy_to_clipboard_scheduling_first(op, text, expires) ==
    /\ lock_free
    /\ \E new_ok, set_ok \in BOOLEAN :
        IF ~clipboard /\ ~new_ok
        THEN /\ Failed(op)
             /\ UNCHANGED <<clipboard, contents, timers>>
        ELSE /\ clipboard' = TRUE
             /\ IF expires
                THEN /\ Len(timers) < MaxTimers
                     /\ schedule_clipboard_clear(op, text, EXPIRATION_INTERVAL)
                ELSE UNCHANGED timers
             /\ IF ~set_ok
                THEN /\ Failed(op)
                     /\ UNCHANGED contents
                ELSE /\ contents' = Holding(text)
                     /\ last_op' = [op |-> op, ok |-> TRUE, text |-> text,
                                    timer |-> IF expires THEN Len(timers) + 1 ELSE 0]
    /\ UNCHANGED lock

\* copy_to_clipboard, called by operation op: under the lock, create the
\* clipboard instance if there is none, set the text, and spawn the expiry
\* thread if asked to.  Clipboard::new and set_text can fail.
copy_to_clipboard(op, text, expires) ==
    /\ lock_free
    /\ \E new_ok, set_ok \in BOOLEAN :
        IF ~clipboard /\ ~new_ok
        THEN /\ Failed(op)
             /\ UNCHANGED <<clipboard, contents, timers>>
        ELSE /\ clipboard' = TRUE
             /\ IF ~set_ok
                THEN /\ Failed(op)
                     /\ UNCHANGED <<contents, timers>>
                ELSE /\ contents' = Holding(text)
                     /\ IF expires
                        THEN /\ Len(timers) < MaxTimers
                             /\ schedule_clipboard_clear(op, text, EXPIRATION_INTERVAL)
                             /\ last_op' = [op |-> op, ok |-> TRUE, text |-> text,
                                            timer |-> Len(timers) + 1]
                        ELSE /\ UNCHANGED timers
                             /\ last_op' = [op |-> op, ok |-> TRUE, text |-> text,
                                            timer |-> 0]
    /\ UNCHANGED lock

\* decrypt_password_file: the decrypted text, or an error.
Decrypted == {[ok |-> TRUE, text |-> f] : f \in FileTexts}
                 \cup {[ok |-> FALSE, text |-> <<>>]}

\* copy_id asking for an expiry, as the secret copies do.
copy_id_expiring(pass_id) ==
    /\ copy_to_clipboard("copy_id", pass_id, TRUE)
    /\ UNCHANGED only_copy_id
    /\ UNCHANGED besideClip

copy_id(pass_id) ==
    /\ copy_to_clipboard("copy_id", pass_id, FALSE)
    /\ UNCHANGED only_copy_id
    /\ UNCHANGED besideClip

copy_password(file) ==
    /\ only_copy_id' = FALSE
    /\ IF file.ok /\ PasswordOf(file.text).found
       THEN copy_to_clipboard("copy_password", PasswordOf(file.text).text, TRUE)
       ELSE Failed("copy_password") /\ UNCHANGED <<clipboard, contents, lock, timers>>
    /\ UNCHANGED besideClip

copy_login(file) ==
    /\ only_copy_id' = FALSE
    /\ IF file.ok /\ LoginOf(file.text).found
       THEN copy_to_clipboard("copy_login", LoginOf(file.text).text, TRUE)
       ELSE Failed("copy_login") /\ UNCHANGED <<clipboard, contents, lock, timers>>
    /\ UNCHANGED besideClip

\* generate_otp: the current code of the file's OTP URL, or an error when
\* the file has no such line, the URL does not parse or the clock fails.
generate_otp(file, totp_ok) ==
    IF file.ok /\ OtpUrlOf(file.text).found /\ totp_ok
    THEN Found(OtpCode)
    ELSE Missing

copy_otp(file, totp_ok) ==
    /\ only_copy_id' = FALSE
    /\ IF generate_otp(file, totp_ok).found
       THEN copy_to_clipboard("copy_otp", generate_otp(file, totp_ok).text, FALSE)
       ELSE Failed("copy_otp") /\ UNCHANGED <<clipboard, contents, lock, timers>>
    /\ UNCHANGED besideClip

CopyId       == \E id \in ClipIds : copy_id(id)
CopyPassword == \E file \in Decrypted : copy_password(file)
CopyLogin    == \E file \in Decrypted : copy_login(file)
CopyOtp      == \E file \in Decrypted, totp_ok \in BOOLEAN : copy_otp(file, totp_ok)

\* The expiry test with the comparison left out.
StillHoldsAnyText(current_text, text) == TRUE

\* The expiry test with the comparison inverted.
StillHoldsInverted(current_text, text) == current_text # text

\* The test of the expiry thread: the text read equals the text scheduled.
StillHolds(current_text, text) == current_text = text

\* The expiry thread after its sleep: take the lock, read the clipboard
\* (get_text can fail, and fails on a clipboard without text), compare.
expiry_check(t, get_ok) ==
    /\ t \in 1..Len(timers)
    /\ timers[t].pc = "sleeping"
    /\ lock_free
    /\ LET held == contents.set /\ contents.text = timers[t].text
           got  == clipboard /\ contents.set /\ get_ok
       IN  IF got /\ StillHolds(contents.text, timers[t].text)
           THEN /\ timers' = [timers EXCEPT ![t].pc = "clearing", ![t].held = held,
                                            ![t].read = "ok"]
                /\ lock' = t
           ELSE /\ timers' = [timers EXCEPT ![t].pc = "done", ![t].held = held,
                                            ![t].read = IF got THEN "ok" ELSE "err"]
                /\ lock' = 0
    /\ UNCHANGED <<clipboard, contents, last_op, only_copy_id>>
    /\ UNCHANGED besideClip

\* clipboard_instance.clear(), its result dropped, and the lock released.
expiry_clear(t, clear_ok) ==
    /\ t \in 1..Len(timers)
    /\ timers[t].pc = "clearing"
    /\ lock = t
    /\ contents' = IF clear_ok THEN NoContent ELSE contents
    /\ timers' = [timers EXCEPT ![t].pc = "done",
                                ![t].clear = IF clear_ok THEN "ok" ELSE "err"]
    /\ lock' = 0
    /\ UNCHANGED <<clipboard, last_op, only_copy_id>>
    /\ UNCHANGED besideClip

TimerCheck == \E t \in 1..MaxTimers, get_ok \in BOOLEAN : expiry_check(t, get_ok)
TimerClear == \E t \in 1..MaxTimers, clear_ok \in BOOLEAN : expiry_clear(t, clear_ok)

(***************************************************************************)
(* The store index: pass::PasswordStore::new walks the store directory and *)
(* lists its password files; the dispatcher's PasswordStore has its own    *)
(* copy of the walk.  A file name is the sequence of its characters, a     *)
(* directory the sequence of the names leading to it from the store        *)
(* directory, a file the pair of its directory and its name.               *)
(***************************************************************************)
MaxFiles == 3
MaxFaults == 1

Root == <<>>
Sub == << <<"s", "u", "b">> >>
Deep == << <<"s", "u", "b">>, <<"d", "e", "e", "p">> >>

\* The directories a store holds: the store directory alone, or with Sub, or
\* with Sub and Deep inside it.
DirSets == {{Root}, {Root, Sub}, {Root, Sub, Deep}}

FileNames ==
    { <<"a", ".", "g", "p", "g">>,
      <<"a", ".", "G", "P", "G">>,
      <<"b", ".", "t", "x", "t">>,
      <<".", "g", "p", "g">> }

\* The stores: up to MaxFiles regular files in the directories, and up to
\* MaxFaults nodes the file system refuses: a directory in `denied` cannot be
\* listed, a file in `nometa` cannot be stat'ed.
Stores ==
    UNION { { [dirs |-> ds, files |-> fs, denied |-> ft \cap ds,
               nometa |-> ft \cap fs] :
                ft \in {x \in SUBSET (ds \cup fs) : Cardinality(x) <= MaxFaults} } :
            <<ds, fs>> \in
                UNION { {ds2} \X {x \in SUBSET (ds2 \X FileNames) :
                                    Cardinality(x) <= MaxFiles} : ds2 \in DirSets } }

EmptyStore == [dirs |-> {Root}, files |-> {}, denied |-> {}, nometa |-> {}]

\* The files of a store as paths [dir, name].
PathOf(f) == [dir |-> f[1], name |-> f[2]]
FilePaths(store) == {PathOf(f) : f \in store.files}

\* What a directory holds: its sub-directories and its files.
IsDirNode(n) == "dirname" \in DOMAIN n
DirNode(d) == [parent |-> SubSeq(d, 1, Len(d) - 1), dirname |-> d[Len(d)]]
Nodes(store) ==
    {DirNode(d) : d \in store.dirs \ {Root}} \cup
    {[parent |-> p.dir, path |-> p] : p \in FilePaths(store)}

RECURSIVE Perms(_)
Perms(S) ==
    IF S = {} THEN {<<>>}
    ELSE UNION { {<<x>> \o q : q \in Perms(S \ {x})} : x \in S }

\* fs::read_dir yields the entries of a directory in an order the file system
\* chooses: an order gives every directory of the store its listing.
Entries(store, dir) == {n \in Nodes(store) : n.parent = dir}

RECURSIVE OrdersOver(_, _)
OrdersOver(store, ds) ==
    IF ds = {} THEN {<<>>}
    ELSE LET d == CHOOSE x \in ds : TRUE
         IN  { (d :> q) @@ f : q \in Perms(Entries(store, d)),
                               f \in OrdersOver(store, ds \ {d}) }

Orders(store) == OrdersOver(store, store.dirs)

read_dir(dir, order) == order[dir]

\* Path::extension: what follows the last dot of the file name; none when the
\* name has no dot or only a leading one.
LastDot(name) ==
    LET dots == {i \in 1..Len(name) : name[i] = "."}
    IN  IF dots = {} THEN 0 ELSE CHOOSE i \in dots : \A j \in dots : j <= i

NoExtension == [some |-> FALSE, ext |-> <<>>]
extension(name) ==
    IF LastDot(name) <= 1 THEN NoExtension
    ELSE [some |-> TRUE, ext |-> SubSeq(name, LastDot(name) + 1, Len(name))]

to_ascii_lowercase(c) ==
    CASE c = "G" -> "g"
      [] c = "P" -> "p"
      [] OTHER -> c

eq_ignore_ascii_case(s, t) ==
    /\ Len(s) = Len(t)
    /\ \A i \in 1..Len(s) : to_ascii_lowercase(s[i]) = to_ascii_lowercase(t[i])

GpgSuffix == <<"g", "p", "g">>

\* The test pass::PasswordStore::read_store_dir puts to a file.
is_password_file(name) ==
    /\ extension(name).some
    /\ eq_ignore_ascii_case(extension(name).ext, GpgSuffix)

\* The test the dispatcher's PasswordStore::read_store_dir puts to a file.
is_gpg_file(name) ==
    /\ extension(name).some
    /\ extension(name).ext = GpgSuffix

ScanOk(paths) == [ok |-> TRUE, paths |-> paths]
ScanErr == [ok |-> FALSE, paths |-> <<>>]

\* visit_dir: an io::Result; `?` hands the error of a directory that cannot
\* be listed up through every directory above it.
RECURSIVE visit_dir(_, _, _, _)
RECURSIVE visit_entries(_, _, _, _)
visit_dir(store, dir, order, ignore_case) ==
    IF dir \in store.denied THEN ScanErr
    ELSE visit_entries(store, read_dir(dir, order), order, ignore_case)

visit_entries(store, entries, order, ignore_case) ==
    IF entries = <<>> THEN ScanOk(<<>>)
    ELSE LET n == Head(entries)
             here ==
                IF IsDirNode(n)
                THEN visit_dir(store, Append(n.parent, n.dirname), order, ignore_case)
                ELSE IF (IF ignore_case THEN is_password_file(n.path.name)
                                        ELSE is_gpg_file(n.path.name))
                     THEN ScanOk(<<n.path>>)
                     ELSE ScanOk(<<>>)
             rest == visit_entries(store, Tail(entries), order, ignore_case)
         IN  IF here.ok /\ rest.ok THEN ScanOk(here.paths \o rest.paths)
             ELSE ScanErr

read_store_dir(store, order) == visit_dir(store, Root, order, TRUE)

dispatcher_read_store_dir(store, order) == visit_dir(store, Root, order, FALSE)

\* Path::with_extension(""): the file name up to its last dot.
with_extension_empty(name) ==
    IF extension(name).some THEN SubSeq(name, 1, LastDot(name) - 1) ELSE name

\* The path below the store directory as a string.
RECURSIVE to_string(_, _)
to_string(dir, leaf) ==
    IF dir = <<>> THEN leaf
    ELSE Head(dir) \o <<"/">> \o to_string(Tail(dir), leaf)

pass_id(path) == to_string(path.dir, with_extension_empty(path.name))

PasswordInfo(path) == [id |-> pass_id(path), metadata |-> path]

RECURSIVE filter_map_metadata(_, _)
filter_map_metadata(store, paths) ==
    IF paths = <<>> THEN <<>>
    ELSE (IF <<Head(paths).dir, Head(paths).name>> \in store.nometa
          THEN <<>> ELSE <<PasswordInfo(Head(paths))>>)
         \o filter_map_metadata(store, Tail(paths))

\* get_password_infos: unwrap_or_default makes a failed walk an empty list.
get_password_infos(store, order) ==
    LET walk == read_store_dir(store, order)
    IN  filter_map_metadata(store, IF walk.ok THEN walk.paths ELSE <<>>)

\* The order of String: by the bytes, a proper prefix first.
Byte(c) ==
    CASE c = "." -> 46 [] c = "/" -> 47 [] c = "G" -> 71 [] c = "P" -> 80
      [] c = "a" -> 97 [] c = "b" -> 98 [] c = "d" -> 100 [] c = "e" -> 101
      [] c = "g" -> 103 [] c = "p" -> 112 [] c = "s" -> 115 [] c = "t" -> 116
      [] c = "u" -> 117 [] c = "x" -> 120

RECURSIVE StringLess(_, _)
StringLess(s, t) ==
    IF t = <<>> THEN FALSE
    ELSE IF s = <<>> THEN TRUE
    ELSE IF Byte(Head(s)) # Byte(Head(t)) THEN Byte(Head(s)) < Byte(Head(t))
    ELSE StringLess(Tail(s), Tail(t))

\* sort_by_key is stable: an element goes behind those whose key is not
\* greater.
RECURSIVE insert_by_key(_, _)
insert_by_key(sorted, info) ==
    IF sorted = <<>> THEN <<info>>
    ELSE IF StringLess(info.id, Head(sorted).id) THEN <<info>> \o sorted
    ELSE <<Head(sorted)>> \o insert_by_key(Tail(sorted), info)

RECURSIVE sort_by_key(_)
sort_by_key(infos) ==
    IF infos = <<>> THEN <<>>
    ELSE insert_by_key(sort_by_key(SubSeq(infos, 1, Len(infos) - 1)),
                       infos[Len(infos)])

NotBuilt == [built |-> FALSE, infos |-> <<>>]
NotWalked == [built |-> FALSE, ok |-> FALSE, paths |-> <<>>]

InitIndex(store) ==
    /\ tree = store
    /\ passwords = NotBuilt
    /\ found_paths = NotWalked

\* pass::PasswordStore::new
new ==
    \E order \in Orders(tree) :
        /\ passwords' = [built |-> TRUE,
                         infos |-> sort_by_key(get_password_infos(tree, order))]
        /\ UNCHANGED <<tree, found_paths>>
        /\ UNCHANGED besideIndex

\* The walk of the dispatcher's PasswordStore::new.
dispatcher_new ==
    \E order \in Orders(tree) :
        /\ found_paths' = [built |-> TRUE] @@ dispatcher_read_store_dir(tree, order)
        /\ UNCHANGED <<tree, passwords>>
        /\ UNCHANGED besideIndex

(***************************************************************************)
(* Extraction: what copy_password, copy_login and generate_otp take from   *)
(* the decrypted text of a file before anything is copied.                 *)
(***************************************************************************)
MaxPieces == 4

\* What the decrypted texts are put together from.
Pieces == { <<"p">>, <<LF>>, <<CR>>, OtpPrefix }

RECURSIVE TextsOf(_)
TextsOf(n) ==
    IF n = 0 THEN {<<>>}
    ELSE TextsOf(n - 1) \cup {t \o piece : t \in TextsOf(n - 1), piece \in Pieces}

Texts == TextsOf(MaxPieces)

NoExtraction == [op |-> "", result |-> Missing, error |-> ""]

InitExtract(text) ==
    /\ decrypted = text
    /\ extracted = NoExtraction

\* ok_or_else: the value found, or Error::Pass with the message.
ok_or_else(op, result, message) ==
    [op |-> op, result |-> result,
     error |-> IF result.found THEN "" ELSE message]

\* copy_password up to its call of copy_to_clipboard.
extract_password ==
    /\ extracted' = ok_or_else("copy_password", PasswordOf(decrypted),
                               "no password found")
    /\ UNCHANGED decrypted
    /\ UNCHANGED besideExtract

\* copy_login up to its call of copy_to_clipboard.
extract_login ==
    /\ extracted' = ok_or_else("copy_login", LoginOf(decrypted), "no login found")
    /\ UNCHANGED decrypted
    /\ UNCHANGED besideExtract

\* generate_otp up to TOTP::from_url.
find_otpauth ==
    /\ extracted' = ok_or_else("generate_otp", OtpUrlOf(decrypted),
                               "no OTP URL found")
    /\ UNCHANGED decrypted
    /\ UNCHANGED besideExtract

Init == InitStore /\ InitClip /\ InitIndex(EmptyStore) /\ InitExtract(<<>>)

\* The dispatcher.
Next ==
    \/ Request
    \/ ThreadRun
    \/ ThreadExit
    \/ DropReceiver

Spec == Init /\ [][Next]_vars

\* The clipboard and the copy operations of the library.
ClipNext ==
    \/ CopyId
    \/ CopyPassword
    \/ CopyLogin
    \/ CopyOtp
    \/ TimerCheck
    \/ TimerClear

ClipSpec == Init /\ [][ClipNext]_vars

\* The expiry threads are scheduled: one that can take its next step and
\* stays able to does take it.
FairClipSpec ==
    /\ ClipSpec
    /\ \A t \in 1..MaxTimers :
        /\ WF_vars(\E get_ok \in BOOLEAN : expiry_check(t, get_ok))
        /\ WF_vars(\E clear_ok \in BOOLEAN : expiry_clear(t, clear_ok))

\* The index is built for a store, at any time and again.
IndexInit == InitStore /\ InitClip /\ InitExtract(<<>>) /\ \E store \in Stores : InitIndex(store)

IndexNext ==
    \/ new
    \/ dispatcher_new

IndexSpec == IndexInit /\ [][IndexNext]_vars

\* The operations on a file whose decrypted text is any of Texts.
ExtractInit ==
    InitStore /\ InitClip /\ InitIndex(EmptyStore) /\ \E text \in Texts : InitExtract(text)

ExtractNext ==
    \/ extract_password
    \/ extract_login
    \/ find_otpauth
    \/ copy_password([ok |-> TRUE, text |-> decrypted])

ExtractSpec == ExtractInit /\ [][ExtractNext]_vars

(***************************************************************************)
(* The dispatcher's claims.                                                *)
(***************************************************************************)
\* The events thread t has sent.
EventsOf(t) == {n \in 1..Len(events) : events[n].task = t}

\* The live threads running operation `kind` for credential `id`.
LiveFor(kind, id) ==
    {t \in 1..Len(tasks) : Live(t) /\ tasks[t].kind = kind /\ tasks[t].id = id}

\* The table keys that hold an entry.  Entries are never removed, so one key
\* in use means that every call of run_once so far computed the same key.
KeysInUse == {p \in Addrs : ops_map[p] # NoEntry}

\* C1: in every reachable state at most one thread spawned for a given
\* (kind, id) pair is live (spawned and not yet finished).  Stated for the
\* runs the claim singles out, in which the requests go through one table
\* entry: request(k, a), request(k, b), request(k, a).
C1_AtMostOneLivePerKey ==
    Cardinality(KeysInUse) <= 1 =>
        \A kind \in Kinds, id \in PassIds : Cardinality(LiveFor(kind, id)) <= 1

\* A table entry that records credential `id` for a thread of operation
\* `kind` that has not finished.
SlotHolds(kind, id) ==
    \E p \in Addrs :
        /\ ops_map[p] # NoEntry
        /\ ops_map[p].last_pass_id = id
        /\ tasks[ops_map[p].handle].kind = kind
        /\ ~is_finished(ops_map[p].handle)

\* C2: a request(kind, id) made while the table records the same id for an
\* unfinished thread of that kind is a no-op: no step spawns a thread for
\* (kind, id) and none changes the table.
C2_SameIdRequestIsNoOp ==
    [][ \A kind \in Kinds, id \in PassIds :
            (/\ SlotHolds(kind, id)
             /\ last_call' # last_call
             /\ last_call'.kind = kind
             /\ last_call'.id = id)
            => (tasks' = tasks /\ ops_map' = ops_map /\ events' = events) ]_vars

\* C3: every thread that has terminated sent exactly one event.
C3_ExactlyOneEvent ==
    \A t \in 1..Len(tasks) : is_finished(t) => Cardinality(EventsOf(t)) = 1

\* C4: an operation whose external work failed did not panic and sent a
\* Status(Err) event (the receiver being there to take it).
C4_FailureBecomesStatusErr ==
    receiver_alive =>
        \A t \in 1..Len(tasks) :
            tasks[t].result \in {"failure", "no_launch"} =>
                /\ tasks[t].pc # "panicked"
                /\ \E n \in EventsOf(t) : events[n].shape = "Status_Err"

\* C5: of two threads of one kind spawned for different ids, once both have
\* terminated each has sent its event (the receiver being there to take it).
C5_BothIdsGetEvent ==
    receiver_alive =>
        \A t1, t2 \in 1..Len(tasks) :
            (/\ t1 < t2
             /\ tasks[t1].kind = tasks[t2].kind
             /\ tasks[t1].id # tasks[t2].id
             /\ is_finished(t1)
             /\ is_finished(t2))
            => (EventsOf(t1) # {} /\ EventsOf(t2) # {})

\* C6: table entries are per operation kind: a call of run_once is suppressed
\* only by an entry of its own kind, and a call that spawns replaces only an
\* entry of its own kind.
C6_SlotsArePerKind ==
    [][ last_call' # last_call =>
            LET old == ops_map[last_call'.key]
            IN  old # NoEntry => tasks[old.handle].kind = last_call'.kind ]_vars

(***************************************************************************)
(* The clipboard's claims.                                                 *)
(***************************************************************************)
\* C7: a step of the expiry thread for text T changes the clipboard only by
\* clearing it, and only when the clipboard holds exactly T; holding any
\* other text, the clipboard is left as it is.
C7_ExpiryClearsOnlyItsText ==
    [][ \A t \in 1..Len(timers) :
            timers'[t] # timers[t] =>
                \/ contents' = contents
                \/ contents = Holding(timers[t].text) /\ contents' = NoContent ]_vars

\* An expiry fired while the clipboard held another text and left it there.
C7_Witness ==
    \E t \in 1..Len(timers) :
        /\ timers[t].pc = "done"
        /\ timers[t].read = "ok"
        /\ ~timers[t].held
        /\ contents.set
        /\ contents.text # timers[t].text

C9_SecretCopiesExpire ==
    (last_op.ok /\ last_op.op \in {"copy_password", "copy_login", "copy_otp"}) =>
        /\ last_op.timer \in 1..Len(timers)
        /\ timers[last_op.timer].text = last_op.text
        /\ timers[last_op.timer].secs = EXPIRATION_INTERVAL

\* C10: copy_id schedules no expiry: no expiry thread stems from copy_id, and
\* as long as only copy_id was called there is no expiry thread at all and
\* the identifier copied last is still on the clipboard.
C10_CopyIdNeverExpires ==
    /\ \A t \in 1..Len(timers) : timers[t].origin # "copy_id"
    /\ last_op.op = "copy_id" => last_op.timer = 0
    /\ only_copy_id => timers = <<>>
    /\ (only_copy_id /\ last_op.ok) => contents = Holding(last_op.text)

\* Only copy_id was called so far, and its latest call put "p" on the clipboard.
C10_Witness ==
    /\ only_copy_id
    /\ last_op.op = "copy_id"
    /\ last_op.ok
    /\ contents = Holding(<<"p">>)

(***************************************************************************)
(* The index's claims.                                                     *)
(***************************************************************************)
\* Directory d is dir or lies above it.
IsAbove(d, dir) == Len(d) <= Len(dir) /\ SubSeq(dir, 1, Len(d)) = d

\* The password files of the store that can be read and lie in no directory
\* whose listing fails, nor below one.
ReadableOutsideDenied(store) ==
    {p \in FilePaths(store) :
        /\ is_password_file(p.name)
        /\ <<p.dir, p.name>> \notin store.nometa
        /\ \A d \in store.denied : ~IsAbove(d, p.dir)}

\* The files the index has an entry for.
Indexed == {passwords.infos[i].metadata : i \in 1..Len(passwords.infos)}

\* C11: when the store directory itself can be listed, the index built has
\* an entry for every readable password file outside the sub-directories
\* whose listing failed.
C11_UnreadableSubdirIsSkipped ==
    (passwords.built /\ Root \notin tree.denied) =>
        ReadableOutsideDenied(tree) \subseteq Indexed

\* A store in which every directory can be listed and every file stat'ed.
NoFault(store) == store.denied = {} /\ store.nometa = {}

\* The regular files whose extension is gpg in whatever case: the name ends
\* with a dot and the three letters, and something precedes the dot.
EncryptedFiles(store) ==
    {p \in FilePaths(store) :
        LET n == Len(p.name)
        IN  /\ n > Len(GpgSuffix) + 1
            /\ p.name[n - 3] = "."
            /\ p.name[n - 2] \in {"g", "G"}
            /\ p.name[n - 1] \in {"p", "P"}
            /\ p.name[n] \in {"g", "G"}}

\* The path below the store directory, without the dot and the suffix.
SuffixStripped(p) ==
    to_string(p.dir, SubSeq(p.name, 1, Len(p.name) - Len(GpgSuffix) - 1))

\* C12: the index built, by either PasswordStore, lists exactly the regular
\* files whose extension is gpg in whatever case, at every depth, each once
\* and under the id that is its path below the store directory without the
\* suffix, in ascending order of the ids.
C12_IndexListsEncryptedFiles ==
    /\ (passwords.built /\ NoFault(tree)) =>
        /\ Indexed = EncryptedFiles(tree)
        /\ Len(passwords.infos) = Cardinality(EncryptedFiles(tree))
        /\ \A i \in 1..Len(passwords.infos) :
             passwords.infos[i].id = SuffixStripped(passwords.infos[i].metadata)
        /\ \A i, j \in 1..Len(passwords.infos) :
             i < j => ~StringLess(passwords.infos[j].id, passwords.infos[i].id)
    /\ (found_paths.built /\ NoFault(tree)) =>
        /\ found_paths.ok
        /\ {found_paths.paths[i] : i \in 1..Len(found_paths.paths)}
             = EncryptedFiles(tree)

\* C13: no two entries of the index built have the same id.
C13_IdsAreUnique ==
    passwords.built =>
        \A i, j \in 1..Len(passwords.infos) :
            i # j => passwords.infos[i].id # passwords.infos[j].id

(***************************************************************************)
(* The extraction's claims.                                                *)
(***************************************************************************)
\* The place of the first line feed of s, Len(s) + 1 when it has none.
FirstBreak(s) ==
    LET ends == {n \in 1..Len(s) : s[n] = LF}
    IN  IF ends = {} THEN Len(s) + 1
        ELSE CHOOSE n \in ends : \A k \in ends : n <= k

\* The first line of a text that is not empty: what precedes the first line
\* feed, without the carriage return of a "\r\n"; all of it when the text has
\* no line feed.
FirstLine(s) ==
    LET n == FirstBreak(s)
    IN  IF n > Len(s) THEN s
        ELSE IF n > 1 /\ s[n - 1] = CR THEN SubSeq(s, 1, n - 2)
        ELSE SubSeq(s, 1, n - 1)

\* What follows the first line of s.
AfterFirstLine(s) == SubSeq(s, FirstBreak(s) + 1, Len(s))

\* C14: from a text that is not empty copy_password takes the first line,
\* as it is without its line terminator and even when it is empty; on the
\* empty text it fails with "no password found", and no step of it changes
\* the clipboard or schedules an expiry.
C14_PasswordIsFirstLine ==
    /\ [](extracted.op = "copy_password" =>
            IF decrypted # <<>>
            THEN extracted = [op |-> "copy_password",
                              result |-> Found(FirstLine(decrypted)),
                              error |-> ""]
            ELSE extracted = [op |-> "copy_password", result |-> Missing,
                              error |-> "no password found"])
    /\ [][ (decrypted = <<>> /\ last_op' # last_op) =>
             /\ last_op'.op = "copy_password"
             /\ ~last_op'.ok
             /\ contents' = contents
             /\ timers' = timers ]_vars

\* The text begins with an empty line and goes on, and copy_password took the
\* empty line for the password.
C14_Witness ==
    /\ Len(decrypted) > 1
    /\ decrypted[1] = LF
    /\ extracted.op = "copy_password"
    /\ extracted.result = Found(<<>>)

\* C15: from a text of two lines or more copy_login takes the second line; on
\* a text of fewer lines it fails with "no login found".
C15_LoginIsSecondLine ==
    extracted.op = "copy_login" =>
        IF decrypted # <<>> /\ AfterFirstLine(decrypted) # <<>>
        THEN extracted = [op |-> "copy_login",
                          result |-> Found(FirstLine(AfterFirstLine(decrypted))),
                          error |-> ""]
        ELSE extracted = [op |-> "copy_login", result |-> Missing,
                          error |-> "no login found"]

\* The text is a first line, ended by "\r\n", and a second line without end,
\* and copy_login took the second.
C15_Witness ==
    /\ decrypted = <<"p", CR, LF, "p">>
    /\ extracted.op = "copy_login"
    /\ extracted.result = Found(<<"p">>)

\* The places of s where a line begins with "otpauth://".
OtpLineStarts(s) ==
    {n \in 1..Len(s) :
        /\ n = 1 \/ s[n - 1] = LF
        /\ Len(s) - n + 1 >= Len(OtpPrefix)
        /\ \A k \in 1..Len(OtpPrefix) : s[n + k - 1] = OtpPrefix[k]}

\* C16: generate_otp takes the first line, wherever it stands, that begins
\* with "otpauth://"; a line that holds the prefix further in is passed
\* over, and without a line beginning with it generate_otp fails with
\* "no OTP URL found".
C16_OtpUrlIsFirstPrefixedLine ==
    extracted.op = "generate_otp" =>
        IF OtpLineStarts(decrypted) # {}
        THEN LET n == CHOOSE m \in OtpLineStarts(decrypted) :
                        \A k \in OtpLineStarts(decrypted) : m <= k
             IN  extracted = [op |-> "generate_otp",
                              result |-> Found(FirstLine(SubSeq(decrypted, n,
                                                                Len(decrypted)))),
                              error |-> ""]
        ELSE extracted = [op |-> "generate_otp", result |-> Missing,
                          error |-> "no OTP URL found"]

\* The first line holds the prefix behind a "p", the second begins with it
\* and is the one taken.
C16_Witness ==
    /\ decrypted = <<"p">> \o OtpPrefix \o <<LF>> \o OtpPrefix
    /\ extracted.op = "generate_otp"
    /\ extracted.result = Found(OtpPrefix)

(***************************************************************************)
(* The dispatcher's claims on replaced table entries.                      *)
(***************************************************************************)
\* All requests so far were of one kind and went through one table entry:
\* thread t + 1 took the entry over from thread t.
OneSlotRun ==
    /\ Cardinality(KeysInUse) <= 1
    /\ \A t, u \in 1..Len(tasks) : tasks[t].kind = tasks[u].kind

\* Thread t sends an event in this step.
SendsEvent(t) ==
    /\ Len(events') = Len(events) + 1
    /\ events'[Len(events')].task = t

\* The step is a call of run_once that is accepted.
Accepted == Len(tasks') = Len(tasks) + 1

\* C17: an accepted request puts its thread and its id into the table entry
\* and leaves every other thread as it is; a thread that is still running
\* after its entry went to a request for a different id runs on, and when it
\* ends its run (the receiver being there) it has sent its event.
C17_ReplacedTaskStillDelivers ==
    [][ /\ Accepted =>
            /\ ops_map'[last_call'.key] =
                   [handle |-> Len(tasks'), last_pass_id |-> last_call'.id]
            /\ \A t \in 1..Len(tasks) : tasks'[t] = tasks[t]
        /\ \A t \in 1..Len(tasks) :
            (/\ OneSlotRun
             /\ t < Len(tasks)
             /\ tasks[t + 1].id # tasks[t].id
             /\ tasks[t].pc = "running"
             /\ tasks'[t].pc # "running"
             /\ receiver_alive)
            => SendsEvent(t) ]_vars

\* The table entries that hold a thread of operation `kind`.
EntriesOf(kind) ==
    {p \in Addrs : ops_map[p] # NoEntry /\ tasks[ops_map[p].handle].kind = kind}

\* C18: a request for the kind and the id of a table entry whose thread has
\* finished is accepted: a thread is spawned for it and the entry is
\* replaced; the table holds at most one entry per kind; and the new thread
\* sends an event when it ends its run (the receiver being there).
C18_FinishedSlotIsReused ==
    /\ [](\A kind \in Kinds : Cardinality(EntriesOf(kind)) <= 1)
    /\ [][ \A p \in Addrs :
            (/\ ops_map[p] # NoEntry
             /\ is_finished(ops_map[p].handle)
             /\ Accepted \/ last_call' # last_call
             /\ last_call'.key = p
             /\ last_call'.kind = tasks[ops_map[p].handle].kind
             /\ last_call'.id = ops_map[p].last_pass_id)
            => /\ Accepted
               /\ tasks'[Len(tasks')] =
                      [kind |-> last_call'.kind, id |-> last_call'.id,
                       pc |-> "running", result |-> "none"]
               /\ ops_map'[p] =
                      [handle |-> Len(tasks'), last_pass_id |-> last_call'.id] ]_vars
    /\ [][ \A t \in 2..Len(tasks) :
            (/\ OneSlotRun
             /\ tasks[t].id = tasks[t - 1].id
             /\ tasks[t].pc = "running"
             /\ tasks'[t].pc # "running"
             /\ receiver_alive)
            => SendsEvent(t) ]_vars

(***************************************************************************)
(* The clipboard's claims on the lock and on superseded expiries.          *)
(***************************************************************************)
\* C19: from the read of an expiry check that found its text to its clear,
\* the expiry thread holds the lock, the clipboard holds the text it read,
\* and no step but its own clear changes the clipboard or schedules an
\* expiry: no copy takes effect in between.
C19_CheckAndClearAreOneSection ==
    [][ \A t \in 1..Len(timers) :
            timers[t].pc = "clearing" =>
                /\ lock = t
                /\ contents = Holding(timers[t].text)
                /\ Len(timers') = Len(timers)
                /\ contents' # contents =>
                       (timers'[t].pc = "done" /\ contents' = NoContent) ]_vars

\* An expiry thread is between its read and its clear while a later copy's
\* expiry is pending.
C19_Witness ==
    \E t, u \in 1..Len(timers) :
        /\ t < u
        /\ timers[t].pc = "clearing"
        /\ lock = t
        /\ timers[u].pc = "sleeping"

\* A text other than that of expiry t was copied, with an expiry of its own,
\* after expiry t was scheduled.
Superseded(t) ==
    \E u \in (t + 1)..Len(timers) : timers[u].text # timers[t].text

C21_SuppressedMeansEventPending ==
    [][ (last_call' # last_call /\ ~last_call'.spawned) =>
            /\ ops_map[last_call'.key] # NoEntry
            /\ EventsOf(ops_map[last_call'.key].handle) = {} ]_vars

(***************************************************************************)
(* The clipboard's claim on failed copies.                                 *)
(***************************************************************************)
\* The files copy_password, copy_login and copy_otp fail on before they come
\* to copy: not decrypted, or without the line (for copy_otp: without a code).
NoPasswordFiles == {file \in Decrypted : ~(file.ok /\ PasswordOf(file.text).found)}
NoLoginFiles == {file \in Decrypted : ~(file.ok /\ LoginOf(file.text).found)}
NoOtpFiles ==
    {<<file, totp_ok>> \in Decrypted \X BOOLEAN : ~generate_otp(file, totp_ok).found}

\* The step ends in an error and leaves expiry threads and clipboard alone.
FailsWithoutEffect ==
    ~last_op'.ok /\ timers' = timers /\ contents' = contents

\* C22: no step of a copy operation ends in an error with the expiry threads
\* changed; and a step of copy_password, copy_login or copy_otp on a file
\* that cannot be decrypted or lacks the line (or yields no code) ends in an
\* error and leaves the expiry threads and the clipboard as they are: a step
\* that does otherwise is no step of the operation on such a file.
C22_FailedCopySchedulesNothing ==
    [][ /\ (~last_op'.ok /\ timers' # timers) =>
               ~(CopyId \/ CopyPassword \/ CopyLogin \/ CopyOtp)
        /\ (last_op'.op = "copy_password" /\ ~FailsWithoutEffect) =>
               \A file \in NoPasswordFiles : ~copy_password(file)
        /\ (last_op'.op = "copy_login" /\ ~FailsWithoutEffect) =>
               \A file \in NoLoginFiles : ~copy_login(file)
        /\ (last_op'.op = "copy_otp" /\ ~FailsWithoutEffect) =>
               \A f \in NoOtpFiles : ~copy_otp(f[1], f[2]) ]_vars

\* A password is on the clipboard with its expiry pending, and a copy_login
\* after it has failed.
C22_Witness ==
    /\ last_op.op = "copy_login"
    /\ ~last_op.ok
    /\ contents = Holding(<<"p">>)
    /\ Len(timers) = 1
    /\ timers[1].pc = "sleeping"

====
